---- MODULE Spec2Model ----
(***************************************************************************)
(* Model of src/helpers/voice.js: the voice-message pipeline of voicy.      *)
(*                                                                         *)
(* One request (one call of handleMessage) is modelled.  The async         *)
(* functions of the source run synchronously between two awaits, so each   *)
(* action of the model is one such run: it starts when the awaited         *)
(* external call settles (fulfilled or rejected), executes the code up to  *)
(* the next await, and leaves the next external call in flight.            *)
(*                                                                         *)
(* Texts are JavaScript strings.  A text is kept run-length encoded: a     *)
(* sequence of runs [c |-> unit, n |-> count], with no empty run and no    *)
(* two adjacent runs of the same unit, so that two texts are equal exactly *)
(* when their encodings are equal and the 4000-unit message cap of the     *)
(* source can be modelled at its real value.                               *)
(***************************************************************************)
EXTENDS Integers, Sequences, FiniteSets, TLC

\* ------------------------------------------------------------------ texts

Min(a, b) == IF a <= b THEN a ELSE b

NL == "\n"

\* The grave accent U+0060, which a TLA+ string cannot hold.
BQ == "grave"

Run(c, n) == [c |-> c, n |-> n]

\* The unit c repeated n times.
Str(c, n) == IF n = 0 THEN <<>> ELSE <<Run(c, n)>>

\* a + b (string concatenation).
Cat(a, b) ==
  IF a = <<>> THEN b
  ELSE IF b = <<>> THEN a
  ELSE IF a[Len(a)].c = b[1].c
       THEN SubSeq(a, 1, Len(a) - 1)
              \o <<Run(b[1].c, a[Len(a)].n + b[1].n)>>
              \o Tail(b)
       ELSE a \o b

\* The text whose units are the elements of the sequence s (by halves, to
\* keep the evaluation shallow).
RECURSIVE Lit(_)
Lit(s) ==
  IF s = <<>> THEN <<>>
  ELSE IF Len(s) = 1 THEN Str(s[1], 1)
  ELSE LET h == Len(s) \div 2
       IN  Cat(Lit(SubSeq(s, 1, h)), Lit(SubSeq(s, h + 1, Len(s))))

\* The number of units in the runs lo..hi of t (by halves).
RECURSIVE Units(_, _, _)
Units(t, lo, hi) ==
  IF lo > hi THEN 0
  ELSE IF lo = hi THEN t[lo].n
  ELSE Units(t, lo, (lo + hi) \div 2) + Units(t, (lo + hi) \div 2 + 1, hi)

\* text.length
Length(t) == Units(t, 1, Len(t))

\* The number of units in the first j runs of t.
Upto(t, j) == Units(t, 1, j)

\* text.slice(0, k), by halves: a and b are the halves of the text.
RECURSIVE Take(_, _)
TakeHalves(a, b, k) ==
  IF k <= Length(a) THEN Take(a, k) ELSE a \o Take(b, k - Length(a))

Take(t, k) ==
  IF k <= 0 \/ t = <<>> THEN <<>>
  ELSE IF Len(t) = 1 THEN <<Run(t[1].c, Min(k, t[1].n))>>
  ELSE TakeHalves(SubSeq(t, 1, Len(t) \div 2),
                  SubSeq(t, Len(t) \div 2 + 1, Len(t)), k)

\* text.slice(k), by halves.
RECURSIVE Drop(_, _)
DropHalves(a, b, k) ==
  IF k >= Length(a) THEN Drop(b, k - Length(a)) ELSE Drop(a, k) \o b

Drop(t, k) ==
  IF k <= 0 \/ t = <<>> THEN t
  ELSE IF Len(t) = 1 THEN Str(t[1].c, t[1].n - Min(k, t[1].n))
  ELSE DropHalves(SubSeq(t, 1, Len(t) \div 2),
                  SubSeq(t, Len(t) \div 2 + 1, Len(t)), k)

\* The concatenation of a sequence of texts.
RECURSIVE Concat(_)
Concat(ts) == IF ts = <<>> THEN <<>> ELSE Cat(ts[1], Concat(Tail(ts)))

\* Array.prototype.join
RECURSIVE join(_, _)
join(ts, sep) ==
  IF ts = <<>> THEN <<>>
  ELSE IF Len(ts) = 1 THEN ts[1]
  ELSE Cat(ts[1], Cat(sep, join(Tail(ts), sep)))

IsWhiteSpace(c) == c \in {" ", "\t", "\r", NL}

Least(S) == CHOOSE j \in S : \A i \in S : j <= i

Greatest(S) == CHOOSE j \in S : \A i \in S : i <= j

\* String.prototype.trim
trim(t) ==
  LET S == { j \in 1..Len(t) : ~IsWhiteSpace(t[j].c) }
  IN  IF S = {} THEN <<>> ELSE SubSeq(t, Least(S), Greatest(S))

\* The units the regular expression atom "." does not match.
IsLineTerminator(c) == c \in {NL, "\r"}

\* The number of units at the start of t that "." matches.
DotPrefix(t) ==
  LET S == { j \in 1..Len(t) : IsLineTerminator(t[j].c) }
  IN  IF S = {} THEN Length(t) ELSE Upto(t, Least(S) - 1)

\* text.match(/[\s\S]{1,k}/g): greedy, every unit matches.  The empty
\* sequence stands for the null that match returns when nothing matches.
RECURSIVE matchAny(_, _)
matchAny(t, k) ==
  IF t = <<>> THEN <<>>
  ELSE <<Take(t, k)>> \o matchAny(Drop(t, k), k)

\* text.match(/.{1,k}/g): greedy, a match never contains a line terminator,
\* and the scan for the next match steps over the units that cannot start
\* one.
RECURSIVE matchDot(_, _)
matchDot(t, k) ==
  IF t = <<>> THEN <<>>
  ELSE IF IsLineTerminator(t[1].c) THEN matchDot(Tail(t), k)
  ELSE LET m == Min(DotPrefix(t), k)
       IN  <<Take(t, m)>> \o matchDot(Drop(t, m), k)

\* ------------------------------------------------------- program constants

\* const promoExceptions (chat identifiers that get no promo text)
\* Chat identifiers are written as strings: most of them do not fit the
\* 32-bit integers of TLC, and the program only compares them.
promoExceptions ==
  { "-1001122726482", "-1001140130398", "-1001275987479", "-1001128503769",
    "-1001179199008", "-1001260542215",
    "-471839945", "-499632766", "-428387998", "-483383014", "-424820225",
    "-453221176", "-465403737" }

PromoLine ==
  Lit(<< "P","o","w","e","r","e","d"," ","b","y"," ","[","T","o","d","o",
         "r","a","n","t","]","(","h","t","t","p","s",":","/","/","t","o",
         "d","o","r","a","n","t",".","c","o","m","/","?","r","e","f","=",
         "v","o","i","c","y",")" >>)

\* const promoTexts
promoTexts == [en |-> PromoLine, ru |-> PromoLine]

\* `\n${promoText}` for each of the two texts
promoSuffix == [l \in {"en", "ru"} |-> Cat(Lit(<<NL>>), promoTexts[l])]

\* ctx.i18n.t(key): the localization table is outside the repository; the
\* localized string of a key is one unit named after the key.
i18n_t(key) == Str(key, 1)

NoticeKeys ==
  {"speak_clearly", "error", "error_twenty", "initiated", "google_error_creds"}

\* ------------------------------------------------------------ model bounds

\* The longest engine result (number of transcript segments).
MaxSegments == 2

\* Lengths of the long segment texts: alone or with a second segment, with
\* or without the 55 units of the promo suffix, they give display texts of
\* 3945, 4000 (with and without a line break), 4004, 4055, 8945 and 9000
\* units, among others.
RunLengths == {3945, 4000, 8945}

\* Segment texts the engine may return: empty, blank, padded, with an inner
\* line break, and long.
SegmentTexts ==
  { <<>>,
    Lit(<<" ">>),
    Lit(<<"h", "i", " ">>),
    Lit(<<"a", NL, "b">>) }
  \cup { Str("a", n) : n \in RunLengths }

\* The timecode label of the i-th segment.
Timecode(i) == Cat(Lit(<<"0", ":", "0">>), Str("0", i))

\* Results of urlToText: textWithTimecodes, a sequence of pairs
\* <<timecode, text>> (t[0] and t[1] of the source are t[1] and t[2] here).
EngineResults ==
  UNION { { [i \in 1..k |-> <<Timecode(i), f[i]>>] : f \in [1..k -> SegmentTexts] }
          : k \in 0..MaxSegments }

\* error.message of a failure; the empty text stands for an absent message.
ErrorMessages == { <<>>, Lit(<<"q", "u", "o", "t", "a">>) }

Error(from, message) == [from |-> from, message |-> message]

\* voice.file_size: absent, one byte below the threshold, the threshold, and
\* 20 MiB.
FileSizes ==
  { [known |-> FALSE, bytes |-> 0],
    [known |-> TRUE, bytes |-> 19 * 1024 * 1024 - 1],
    [known |-> TRUE, bytes |-> 19 * 1024 * 1024],
    [known |-> TRUE, bytes |-> 20 * 1024 * 1024] }

\* ctx.chat.id: one exempt chat and one other chat.
ChatIds == { "-1001122726482", "42" }

Chats ==
  [ id : ChatIds, silent : BOOLEAN, engine : {"google", "wit"},
    googleKey : BOOLEAN, timecodesEnabled : BOOLEAN ]

NoChat == [id |-> ""]

\* ------------------------------------------------------------------ state

VARIABLES
  ctx,                \* the request: chat id, message id, attachment size
  db,                 \* the chat document findChat reads
  pc,                 \* the await the request is suspended at
  chat,               \* const chat of handleMessage (NoChat until loaded)
  calls,              \* the platform calls started, in order
  engine,             \* the urlToText call: idle, pending, fulfilled, rejected
  textWithTimecodes,  \* the segments urlToText returned
  text,               \* the text of update/sendMessageWithTranscription
  chunks,             \* the chunks not yet sent
  sentMessage,        \* message_id of sentMessage (0: none)
  err,                \* the error caught by sendTranscription
  voices,             \* the addVoice calls
  reports,            \* the calls of report, in order
  unhandled           \* rejections of promises nobody awaits

vars ==
  << ctx, db, pc, chat, calls, engine, textWithTimecodes, text, chunks,
     sentMessage, err, voices, reports, unhandled >>

\* ------------------------------------------------------- calls and errors

\* A platform call (a method of ctx or ctx.telegram) that has been started:
\* its text, the message it replies to (0: none), the message it edits
\* (0: none), and once it is fulfilled the message_id of its result.
Call(api, txt, reply_to, edits) ==
  [ api |-> api, text |-> txt, reply_to |-> reply_to, edits |-> edits,
    status |-> "pending", id |-> 0 ]

\* The message_id the platform gives the next message it creates.
NewMessageId ==
  ctx.message_id + 1
    + Cardinality({ i \in 1..Len(calls) : calls[i].id # 0 })

\* The awaited call (always the last one started) settles.
Settled(status, id) ==
  [calls EXCEPT ![Len(calls)].status = status, ![Len(calls)].id = id]

Report(e, tag) == [tag |-> tag, err |-> e]

\* --------------------------------------------------- the source's functions

\* The size gate with > for >=.
fileTooLarge_exclusive(voice) ==
  voice.file_size.known /\ voice.file_size.bytes # 0
    /\ voice.file_size.bytes > 19 * 1024 * 1024

\* handleMessage, the condition of the size gate
fileTooLarge(voice) ==
  voice.file_size.known /\ voice.file_size.bytes # 0
    /\ voice.file_size.bytes >= 19 * 1024 * 1024

\* sendLargeFileError
sendLargeFileError ==
  Call("replyWithMarkdown", i18n_t("error_twenty"), ctx.message_id, 0)

\* sendVoiceRecognitionMessage
sendVoiceRecognitionMessage ==
  Call("replyWithMarkdown", i18n_t("initiated"), ctx.message_id, 0)

\* sendTranscription, the condition of the credential gate
sendTranscription_noGoogleKey(c) == c.engine = "google" /\ ~c.googleKey

\* The credential gate of sendAction without its negation.
sendAction_noGoogleKey_negationLost(c) == c.engine = "google" /\ c.googleKey

\* sendAction, the condition of the credential gate
sendAction_noGoogleKey(c) == c.engine = "google" /\ ~c.googleKey

\* textWithTimecodes.map((t) => `${t[0]}:\n${t[1]}`).join('\n')
withTimecodes(twt) ==
  join([i \in 1..Len(twt) |-> Cat(twt[i][1], Cat(Lit(<<":", NL>>), twt[i][2]))],
       Lit(<<NL>>))

\* Array.prototype.filter((v) => !!v) on a sequence of texts
RECURSIVE filterNonEmpty(_)
filterNonEmpty(ts) ==
  IF ts = <<>> THEN <<>>
  ELSE IF ts[1] = <<>> THEN filterNonEmpty(Tail(ts))
  ELSE <<ts[1]>> \o filterNonEmpty(Tail(ts))

\* The plain formatting without its filter: empty segments are joined too.
withoutTimecodes_unfiltered(twt) ==
  join([i \in 1..Len(twt) |-> trim(twt[i][2])], Lit(<<".", " ">>))

\* textWithTimecodes.map((t) => t[1].trim()).filter((v) => !!v).join('. ')
withoutTimecodes(twt) ==
  join(filterNonEmpty([i \in 1..Len(twt) |-> trim(twt[i][2])]),
       Lit(<<".", " ">>))

\* sendTranscription, const text
sendTranscription_text(c, twt) ==
  IF c.timecodesEnabled THEN withTimecodes(twt) ELSE withoutTimecodes(twt)

\* sendAction, const text
sendAction_text(c, twt) ==
  IF c.timecodesEnabled THEN withTimecodes(twt) ELSE withoutTimecodes(twt)

\* addVoice given the text with timecodes.
sendTranscription_voiceText_display(twt) == withTimecodes(twt)

\* sendTranscription, the text given to addVoice
sendTranscription_voiceText(twt) == withoutTimecodes(twt)

\* sendAction, the text given to addVoice
sendAction_voiceText(twt) == withoutTimecodes(twt)

\* updateMessagewithTranscription, "Add promo"; ru is isRuChat(chat)
updateMessagewithTranscription_promo(t, ru) ==
  IF t # <<>> /\ ctx.chat_id \notin promoExceptions
  THEN Cat(t, promoSuffix[IF ru THEN "ru" ELSE "en"])
  ELSE t

\* sendMessageWithTranscription, "Add promo"
sendMessageWithTranscription_promo(t, ru) ==
  IF t # <<>> /\ ctx.chat_id \notin promoExceptions
  THEN Cat(t, promoSuffix[IF ru THEN "ru" ELSE "en"])
  ELSE t

\* updateMessagewithTranscription, the branch that edits once
updateMessagewithTranscription_single(t) == t = <<>> \/ Length(t) <= 4000

\* sendMessageWithTranscription, the branch that sends once
sendMessageWithTranscription_single(t) == t # <<>> /\ Length(t) < 4000

\* updateMessagewithTranscription, const chunks
updateMessagewithTranscription_chunks(t) == matchAny(t, 4000)

\* sendMessageWithTranscription, const chunks
sendMessageWithTranscription_chunks(t) == matchDot(t, 4000)

\* updateMessagewithTranscription without the speak_clearly fallback: an empty
\* text is edited in as it is.
updateMessagewithTranscription_start_noFallback(msg, t, cs) ==
  IF updateMessagewithTranscription_single(t)
  THEN [ text |-> t,
         first |-> Call("editMessageText", t, 0, msg),
         rest |-> <<>> ]
  ELSE [ text |-> t,
         first |-> Call("editMessageText", Head(cs), 0, msg),
         rest |-> Tail(cs) ]

\* updateMessagewithTranscription from "Add promo" to its first await, for
\* the text t with the promo and its chunks cs: the editMessageText it starts
\* and the chunks left for the loop.
updateMessagewithTranscription_start(msg, t, cs) ==
  IF updateMessagewithTranscription_single(t)
  THEN [ text |-> t,
         first |-> Call("editMessageText",
                        IF t # <<>> THEN t ELSE i18n_t("speak_clearly"),
                        0, msg),
         rest |-> <<>> ]
  ELSE [ text |-> t,
         first |-> Call("editMessageText", Head(cs), 0, msg),
         rest |-> Tail(cs) ]

updateMessagewithTranscription_promoted(msg, t) ==
  updateMessagewithTranscription_start(
    msg, t,
    IF updateMessagewithTranscription_single(t) THEN <<>>
    ELSE updateMessagewithTranscription_chunks(t))

\* updateMessagewithTranscription up to its first await.
updateMessagewithTranscription(msg, t0, ru) ==
  updateMessagewithTranscription_promoted(
    msg, updateMessagewithTranscription_promo(t0, ru))

\* The error notice with the raw message appended for every engine.
updateMessagewithError_text_anyEngine(c, error) ==
  Cat(i18n_t("error"),
      Cat(Lit(<<NL, NL, BQ, BQ, BQ, " ">>),
          Cat(IF error.message # <<>> THEN error.message
              ELSE Lit(<<"U","n","k","n","o","w","n"," ","e","r","r","o","r">>),
              Lit(<<BQ, BQ, BQ>>))))

\* updateMessagewithError, let text
updateMessagewithError_text(c, error) ==
  IF c.engine = "google"
  THEN Cat(i18n_t("error"),
           Cat(Lit(<<NL, NL, BQ, BQ, BQ, " ">>),
               Cat(IF error.message # <<>> THEN error.message
                   ELSE Lit(<<"U","n","k","n","o","w","n"," ","e","r","r","o","r">>),
                   Lit(<<BQ, BQ, BQ>>))))
  ELSE i18n_t("error")

\* updateMessagewithError up to its await
updateMessagewithError(msg, c, error) ==
  Call("editMessageText", updateMessagewithError_text(c, error), 0, msg)

\* ------------------------------------------------------------------ Init

NoError == Error("", <<>>)

\* The failure of a call other than urlToText.
Failure(from) == Error(from, Lit(<<"4", "2", "9">>))

\* A call of addVoice: the text and the segments it is given.
Voice(t, twt) == [text |-> t, textWithTimecodes |-> twt, status |-> "pending"]

VoiceSettled(status) == [voices EXCEPT ![Len(voices)].status = status]

Init ==
  /\ ctx \in [chat_id : ChatIds, message_id : {100}, file_size : FileSizes]
  /\ db \in {c \in Chats : c.id = ctx.chat_id}
  /\ pc = "idle"
  /\ chat = NoChat
  /\ calls = <<>>
  /\ engine = "idle"
  /\ textWithTimecodes = <<>>
  /\ text = <<>>
  /\ chunks = <<>>
  /\ sentMessage = 0
  /\ err = NoError
  /\ voices = <<>>
  /\ reports = <<>>
  /\ unhandled = <<>>

\* --------------------------------------------------------- handleMessage

\* handleMessage is called: it runs to `await findChat(ctx.chat.id)`.
handleMessage ==
  /\ pc = "idle"
  /\ pc' = "findChat"
  /\ UNCHANGED << ctx, db, chat, calls, engine, textWithTimecodes, text,
                  chunks, sentMessage, err, voices, reports, unhandled >>

\* catch (err) { report(ctx, err, 'handleMessage') } of handleMessage
handleMessage_catch(e) ==
  /\ reports' = Append(reports, Report(e, "handleMessage"))
  /\ pc' = "done"

\* findChat settles: the size gate, then sendLargeFileError or getFile.
handleMessage_findChat ==
  /\ pc = "findChat"
  /\ \/ /\ chat' = db
        /\ IF fileTooLarge(ctx)
           THEN IF ~db.silent
                THEN /\ calls' = Append(calls, sendLargeFileError)
                     /\ pc' = "sendLargeFileError"
                ELSE /\ pc' = "done"
                     /\ UNCHANGED calls
           ELSE /\ calls' = Append(calls, Call("getFile", <<>>, 0, 0))
                /\ pc' = "getFile"
        /\ UNCHANGED reports
     \/ /\ handleMessage_catch(Failure("findChat"))
        /\ UNCHANGED << chat, calls >>
  /\ UNCHANGED << ctx, db, engine, textWithTimecodes, text, chunks,
                  sentMessage, err, voices, unhandled >>

\* `await sendLargeFileError(ctx, message)` settles.
handleMessage_sendLargeFileError ==
  /\ pc = "sendLargeFileError"
  /\ \/ /\ calls' = Settled("fulfilled", NewMessageId)
        /\ pc' = "done"
        /\ UNCHANGED reports
     \/ /\ calls' = Settled("rejected", 0)
        /\ handleMessage_catch(Failure("replyWithMarkdown"))
  /\ UNCHANGED << ctx, db, chat, engine, textWithTimecodes, text, chunks,
                  sentMessage, err, voices, unhandled >>

\* `await ctx.telegram.getFile(voice.file_id)` settles.
handleMessage_getFile ==
  /\ pc = "getFile"
  /\ \/ /\ calls' = Settled("fulfilled", 0)
        /\ pc' = "fileUrl"
        /\ UNCHANGED reports
     \/ /\ calls' = Settled("rejected", 0)
        /\ handleMessage_catch(Failure("getFile"))
  /\ UNCHANGED << ctx, db, chat, engine, textWithTimecodes, text, chunks,
                  sentMessage, err, voices, unhandled >>

\* `await urlFinder.fileUrl(fileData.file_path)` settles: sendAction or
\* sendTranscription starts and runs to its first await.
handleMessage_fileUrl ==
  /\ pc = "fileUrl"
  /\ \/ /\ IF chat.silent
           THEN /\ calls' = Append(calls, Call("replyWithChatAction", <<>>, 0, 0))
                /\ pc' = "replyWithChatAction"
           ELSE /\ calls' = Append(calls, sendVoiceRecognitionMessage)
                /\ pc' = "sendVoiceRecognitionMessage"
        /\ UNCHANGED reports
     \/ /\ handleMessage_catch(Failure("fileUrl"))
        /\ UNCHANGED calls
  /\ UNCHANGED << ctx, db, chat, engine, textWithTimecodes, text, chunks,
                  sentMessage, err, voices, unhandled >>

\* ------------------------------------------- sendTranscription (interactive)

\* catch (err) of sendTranscription, up to the await in updateMessagewithError;
\* cs is the call log with the failed call settled.
sendTranscription_catch(cs, e) ==
  /\ err' = e
  /\ calls' = Append(cs, updateMessagewithError(sentMessage, chat, e))
  /\ pc' = "updateMessagewithError"

\* `await addVoice(...)` of sendTranscription is started.
sendTranscription_startAddVoice ==
  /\ voices' = Append(voices,
                      Voice(sendTranscription_voiceText(textWithTimecodes),
                            textWithTimecodes))
  /\ pc' = "sendTranscription.addVoice"

\* updateWithGoogleKeyError: u is updateMessagewithTranscription up to its
\* first await; the promise is dropped and sendTranscription returns.
updateWithGoogleKeyError_start(u) ==
  /\ calls' = Append(Settled("fulfilled", NewMessageId), u.first)
  /\ text' = u.text
  /\ pc' = "done"
  /\ UNCHANGED engine

\* `await sendVoiceRecognitionMessage(ctx, message)` settles: the credential
\* gate, then updateWithGoogleKeyError (not awaited: its editMessageText is
\* started, and sendTranscription returns) or urlToText.  The notice of
\* google_error_creds is short, so the update takes the single-edit branch.
sendTranscription_sendVoiceRecognitionMessage ==
  /\ pc = "sendVoiceRecognitionMessage"
  /\ \/ /\ sentMessage' = NewMessageId
        /\ IF sendTranscription_noGoogleKey(chat)
           THEN \E ru \in BOOLEAN :
                  updateWithGoogleKeyError_start(
                    updateMessagewithTranscription(
                      NewMessageId, i18n_t("google_error_creds"), ru))
           ELSE /\ calls' = Settled("fulfilled", NewMessageId)
                /\ engine' = "pending"
                /\ pc' = "sendTranscription.urlToText"
                /\ UNCHANGED text
        /\ UNCHANGED reports
     \/ /\ calls' = Settled("rejected", 0)
        /\ reports' = Append(reports,
                             Report(Failure("replyWithMarkdown"), "sendTranscription"))
        /\ pc' = "done"
        /\ UNCHANGED << sentMessage, engine, text >>
  /\ UNCHANGED << ctx, db, chat, textWithTimecodes, chunks, err, voices,
                  unhandled >>

\* The editMessageText that updateWithGoogleKeyError started settles; nothing
\* awaits the promise, so a rejection is unhandled.
updateWithGoogleKeyError ==
  /\ pc = "done"
  /\ calls # <<>>
  /\ calls[Len(calls)].status = "pending"
  /\ \/ /\ calls' = Settled("fulfilled", 0)
        /\ UNCHANGED unhandled
     \/ /\ calls' = Settled("rejected", 0)
        /\ unhandled' = Append(unhandled, Failure("editMessageText"))
  /\ UNCHANGED << ctx, db, pc, chat, engine, textWithTimecodes, text, chunks,
                  sentMessage, err, voices, reports >>

\* The try block of sendTranscription from the result twt of urlToText to the
\* first await of updateMessagewithTranscription (u).
sendTranscription_try(twt, u) ==
  /\ engine' = "fulfilled"
  /\ textWithTimecodes' = twt
  /\ text' = u.text
  /\ calls' = Append(calls, u.first)
  /\ chunks' = u.rest
  /\ pc' = IF updateMessagewithTranscription_single(u.text)
           THEN "updateMessagewithTranscription.edit"
           ELSE "updateMessagewithTranscription.editFirst"
  /\ UNCHANGED err

\* `await urlToText(url, sanitizeChat(chat))` of sendTranscription settles:
\* the text is built and updateMessagewithTranscription runs to its first
\* await, or the error is caught.
sendTranscription_urlToText ==
  /\ pc = "sendTranscription.urlToText"
  /\ \/ \E twt \in EngineResults, ru \in BOOLEAN :
          sendTranscription_try(
            twt,
            updateMessagewithTranscription(
              sentMessage, sendTranscription_text(chat, twt), ru))
     \/ \E m \in ErrorMessages :
          /\ engine' = "rejected"
          /\ sendTranscription_catch(calls, Error("urlToText", m))
          /\ UNCHANGED << textWithTimecodes, text, chunks >>
  /\ UNCHANGED << ctx, db, chat, sentMessage, voices, reports, unhandled >>

\* The single-edit branch with the rejection of the edit swallowed: addVoice
\* is started all the same.
updateMessagewithTranscription_edit_swallowed ==
  /\ pc = "updateMessagewithTranscription.edit"
  /\ \/ /\ calls' = Settled("fulfilled", 0)
        /\ sendTranscription_startAddVoice
        /\ UNCHANGED err
     \/ /\ calls' = Settled("rejected", 0)
        /\ sendTranscription_startAddVoice
        /\ UNCHANGED err
  /\ UNCHANGED << ctx, db, chat, engine, textWithTimecodes, text, chunks,
                  sentMessage, reports, unhandled >>

\* The editMessageText of the single-edit branch settles.
updateMessagewithTranscription_edit ==
  /\ pc = "updateMessagewithTranscription.edit"
  /\ \/ /\ calls' = Settled("fulfilled", 0)
        /\ sendTranscription_startAddVoice
        /\ UNCHANGED err
     \/ /\ sendTranscription_catch(Settled("rejected", 0), Failure("editMessageText"))
        /\ UNCHANGED voices
  /\ UNCHANGED << ctx, db, chat, engine, textWithTimecodes, text, chunks,
                  sentMessage, reports, unhandled >>

\* The loop of updateMessagewithTranscription with the replies threaded to
\* the original message.
updateMessagewithTranscription_loop_toOriginal(cs) ==
  IF chunks # <<>>
  THEN /\ calls' = Append(cs, Call("reply", Head(chunks), ctx.message_id, 0))
       /\ chunks' = Tail(chunks)
       /\ pc' = "updateMessagewithTranscription.reply"
       /\ UNCHANGED voices
  ELSE /\ calls' = cs
       /\ sendTranscription_startAddVoice
       /\ UNCHANGED chunks

\* for (const chunk of chunks) of updateMessagewithTranscription: the next
\* reply is started, or the function returns and addVoice is started.
updateMessagewithTranscription_loop(cs) ==
  IF chunks # <<>>
  THEN /\ calls' = Append(cs, Call("reply", Head(chunks), sentMessage, 0))
       /\ chunks' = Tail(chunks)
       /\ pc' = "updateMessagewithTranscription.reply"
       /\ UNCHANGED voices
  ELSE /\ calls' = cs
       /\ sendTranscription_startAddVoice
       /\ UNCHANGED chunks

\* The editMessageText of the first chunk settles.
updateMessagewithTranscription_editFirst ==
  /\ pc = "updateMessagewithTranscription.editFirst"
  /\ \/ /\ updateMessagewithTranscription_loop(Settled("fulfilled", 0))
        /\ UNCHANGED err
     \/ /\ sendTranscription_catch(Settled("rejected", 0), Failure("editMessageText"))
        /\ UNCHANGED << voices, chunks >>
  /\ UNCHANGED << ctx, db, chat, engine, textWithTimecodes, text,
                  sentMessage, reports, unhandled >>

\* The reply with one of the remaining chunks settles.
updateMessagewithTranscription_reply ==
  /\ pc = "updateMessagewithTranscription.reply"
  /\ \/ /\ updateMessagewithTranscription_loop(Settled("fulfilled", NewMessageId))
        /\ UNCHANGED err
     \/ /\ sendTranscription_catch(Settled("rejected", 0), Failure("reply"))
        /\ UNCHANGED << voices, chunks >>
  /\ UNCHANGED << ctx, db, chat, engine, textWithTimecodes, text,
                  sentMessage, reports, unhandled >>

\* `await addVoice(...)` of sendTranscription settles.
sendTranscription_addVoice ==
  /\ pc = "sendTranscription.addVoice"
  /\ \/ /\ voices' = VoiceSettled("fulfilled")
        /\ pc' = "done"
        /\ UNCHANGED << calls, err >>
     \/ /\ voices' = VoiceSettled("rejected")
        /\ sendTranscription_catch(calls, Failure("addVoice"))
  /\ UNCHANGED << ctx, db, chat, engine, textWithTimecodes, text, chunks,
                  sentMessage, reports, unhandled >>

\* updateMessagewithError without its try/catch: the rejection of the edit
\* leaves the catch block of sendTranscription before its report and is
\* caught by handleMessage.
updateMessagewithError_editMessageText_noCatch ==
  /\ pc = "updateMessagewithError"
  /\ \/ /\ calls' = Settled("fulfilled", 0)
        /\ reports' = Append(reports, Report(err, "sendTranscription"))
     \/ /\ calls' = Settled("rejected", 0)
        /\ reports' = Append(reports,
                             Report(Failure("editMessageText"), "sendTranscription"))
  /\ pc' = "done"
  /\ UNCHANGED << ctx, db, chat, engine, textWithTimecodes, text, chunks,
                  sentMessage, err, voices, unhandled >>

\* The editMessageText of updateMessagewithError settles; a rejection is
\* reported there; then sendTranscription reports the error it caught.
updateMessagewithError_editMessageText ==
  /\ pc = "updateMessagewithError"
  /\ \/ /\ calls' = Settled("fulfilled", 0)
        /\ reports' = Append(reports, Report(err, "sendTranscription"))
     \/ /\ calls' = Settled("rejected", 0)
        /\ reports' = reports
             \o << Report(Failure("editMessageText"), "updateMessagewithError"),
                   Report(err, "sendTranscription") >>
  /\ pc' = "done"
  /\ UNCHANGED << ctx, db, chat, engine, textWithTimecodes, text, chunks,
                  sentMessage, err, voices, unhandled >>

\* ----------------------------------------------------- sendAction (silent)

\* The catch of sendAction with its report lost.
sendAction_catch_swallowed(e) ==
  /\ reports' = reports
  /\ pc' = "done"

\* catch (err) { report(ctx, err, 'sendTranscription.silent') } of sendAction
sendAction_catch(e) ==
  /\ reports' = Append(reports, Report(e, "sendTranscription.silent"))
  /\ pc' = "done"

\* `await addVoice(...)` of sendAction is started.
sendAction_startAddVoice(twt) ==
  /\ voices' = Append(voices, Voice(sendAction_voiceText(twt), twt))
  /\ pc' = "sendAction.addVoice"

\* sendAction with the typing indicator not awaited: its rejection does not
\* stop the function.
sendAction_replyWithChatAction_ignored ==
  /\ pc = "replyWithChatAction"
  /\ \E st \in {"fulfilled", "rejected"} :
       /\ calls' = Settled(st, 0)
       /\ IF sendAction_noGoogleKey(chat)
          THEN /\ pc' = "done"
               /\ UNCHANGED engine
          ELSE /\ engine' = "pending"
               /\ pc' = "sendAction.urlToText"
       /\ UNCHANGED reports
  /\ UNCHANGED << ctx, db, chat, textWithTimecodes, text, chunks, sentMessage,
                  err, voices, unhandled >>

\* `await ctx.replyWithChatAction('typing')` settles: the credential gate,
\* then urlToText; a rejection leaves sendAction and is caught by
\* handleMessage.
sendAction_replyWithChatAction ==
  /\ pc = "replyWithChatAction"
  /\ \/ /\ calls' = Settled("fulfilled", 0)
        /\ IF sendAction_noGoogleKey(chat)
           THEN /\ pc' = "done"
                /\ UNCHANGED engine
           ELSE /\ engine' = "pending"
                /\ pc' = "sendAction.urlToText"
        /\ UNCHANGED reports
     \/ /\ calls' = Settled("rejected", 0)
        /\ reports' = Append(reports,
                             Report(Failure("replyWithChatAction"), "sendAction"))
        /\ pc' = "done"
        /\ UNCHANGED engine
  /\ UNCHANGED << ctx, db, chat, textWithTimecodes, text, chunks, sentMessage,
                  err, voices, unhandled >>

\* sendMessageWithTranscription with the fallback of the interactive path: an
\* empty text is answered with the speak_clearly notice.
sendMessageWithTranscription_send_fallback(twt, t, cs) ==
  IF sendMessageWithTranscription_single(t)
  THEN /\ calls' = Append(calls, Call("sendMessage", t, ctx.message_id, 0))
       /\ pc' = "sendMessageWithTranscription.sendMessage"
       /\ UNCHANGED << chunks, voices, reports >>
  ELSE IF t # <<>>
  THEN IF cs = <<>>
       THEN /\ sendAction_catch(Error("TypeError", <<>>))
            /\ UNCHANGED << calls, chunks, voices >>
       ELSE /\ calls' = Append(calls,
                               Call("sendMessage", Head(cs), ctx.message_id, 0))
            /\ chunks' = Tail(cs)
            /\ pc' = "sendMessageWithTranscription.sendFirst"
            /\ UNCHANGED << voices, reports >>
  ELSE /\ calls' = Append(calls, Call("sendMessage", i18n_t("speak_clearly"),
                                      ctx.message_id, 0))
       /\ pc' = "sendMessageWithTranscription.sendMessage"
       /\ UNCHANGED << chunks, voices, reports >>

\* sendMessageWithTranscription from "Send message" to its first await, or
\* to the addVoice of sendAction when the text is empty: t is the text with
\* the promo, cs its chunks.
sendMessageWithTranscription_send(twt, t, cs) ==
  IF sendMessageWithTranscription_single(t)
  THEN /\ calls' = Append(calls, Call("sendMessage", t, ctx.message_id, 0))
       /\ pc' = "sendMessageWithTranscription.sendMessage"
       /\ UNCHANGED << chunks, voices, reports >>
  ELSE IF t # <<>>
  THEN IF cs = <<>>
       THEN /\ sendAction_catch(Error("TypeError", <<>>))
            /\ UNCHANGED << calls, chunks, voices >>
       ELSE /\ calls' = Append(calls,
                               Call("sendMessage", Head(cs), ctx.message_id, 0))
            /\ chunks' = Tail(cs)
            /\ pc' = "sendMessageWithTranscription.sendFirst"
            /\ UNCHANGED << voices, reports >>
  ELSE /\ sendAction_startAddVoice(twt)
       /\ UNCHANGED << calls, chunks, reports >>

\* The try block of sendAction from the result twt of urlToText on; t is the
\* text with the promo.
sendAction_try(twt, t) ==
  /\ engine' = "fulfilled"
  /\ textWithTimecodes' = twt
  /\ text' = t
  /\ sendMessageWithTranscription_send(
       twt, t,
       IF sendMessageWithTranscription_single(t) \/ t = <<>> THEN <<>>
       ELSE sendMessageWithTranscription_chunks(t))

\* `await urlToText(url, sanitizeChat(chat))` of sendAction settles: the text
\* is built and sendMessageWithTranscription runs to its first await (or to
\* its end when the text is empty), or the error is caught.  A match that
\* returns null makes chunks.shift() throw a TypeError.
sendAction_urlToText ==
  /\ pc = "sendAction.urlToText"
  /\ \/ \E twt \in EngineResults, ru \in BOOLEAN :
          sendAction_try(
            twt,
            sendMessageWithTranscription_promo(sendAction_text(chat, twt), ru))
     \/ \E m \in ErrorMessages :
          /\ engine' = "rejected"
          /\ sendAction_catch(Error("urlToText", m))
          /\ UNCHANGED << textWithTimecodes, text, calls, chunks, voices >>
  /\ UNCHANGED << ctx, db, chat, sentMessage, err, unhandled >>

\* The sendMessage of the single-send branch settles.
sendMessageWithTranscription_sendMessage ==
  /\ pc = "sendMessageWithTranscription.sendMessage"
  /\ \/ /\ calls' = Settled("fulfilled", NewMessageId)
        /\ sendAction_startAddVoice(textWithTimecodes)
        /\ UNCHANGED reports
     \/ /\ calls' = Settled("rejected", 0)
        /\ sendAction_catch(Failure("sendMessage"))
        /\ UNCHANGED voices
  /\ UNCHANGED << ctx, db, chat, engine, textWithTimecodes, text, chunks,
                  sentMessage, err, unhandled >>

\* The loop of sendMessageWithTranscription with the replies threaded to the
\* original message.
sendMessageWithTranscription_loop_toOriginal(cs, first) ==
  IF chunks # <<>>
  THEN /\ calls' = Append(cs, Call("reply", Head(chunks), ctx.message_id, 0))
       /\ chunks' = Tail(chunks)
       /\ pc' = "sendMessageWithTranscription.reply"
       /\ UNCHANGED voices
  ELSE /\ calls' = cs
       /\ sendAction_startAddVoice(textWithTimecodes)
       /\ UNCHANGED chunks

\* for (const chunk of chunks) of sendMessageWithTranscription: the next reply
\* is started (threaded to message first), or the function returns and
\* addVoice is started.
sendMessageWithTranscription_loop(cs, first) ==
  IF chunks # <<>>
  THEN /\ calls' = Append(cs, Call("reply", Head(chunks), first, 0))
       /\ chunks' = Tail(chunks)
       /\ pc' = "sendMessageWithTranscription.reply"
       /\ UNCHANGED voices
  ELSE /\ calls' = cs
       /\ sendAction_startAddVoice(textWithTimecodes)
       /\ UNCHANGED chunks

\* The sendMessage of the first chunk settles: const sentMessage.
sendMessageWithTranscription_sendFirst ==
  /\ pc = "sendMessageWithTranscription.sendFirst"
  /\ \/ /\ sentMessage' = NewMessageId
        /\ sendMessageWithTranscription_loop(Settled("fulfilled", NewMessageId),
                                             NewMessageId)
        /\ UNCHANGED reports
     \/ /\ calls' = Settled("rejected", 0)
        /\ sendAction_catch(Failure("sendMessage"))
        /\ UNCHANGED << sentMessage, chunks, voices >>
  /\ UNCHANGED << ctx, db, chat, engine, textWithTimecodes, text, err,
                  unhandled >>

\* The reply with one of the remaining chunks settles.
sendMessageWithTranscription_reply ==
  /\ pc = "sendMessageWithTranscription.reply"
  /\ \/ /\ sendMessageWithTranscription_loop(Settled("fulfilled", NewMessageId),
                                             sentMessage)
        /\ UNCHANGED reports
     \/ /\ calls' = Settled("rejected", 0)
        /\ sendAction_catch(Failure("reply"))
        /\ UNCHANGED << chunks, voices >>
  /\ UNCHANGED << ctx, db, chat, engine, textWithTimecodes, text,
                  sentMessage, err, unhandled >>

\* `await addVoice(...)` of sendAction settles.
sendAction_addVoice ==
  /\ pc = "sendAction.addVoice"
  /\ \/ /\ voices' = VoiceSettled("fulfilled")
        /\ pc' = "done"
        /\ UNCHANGED reports
     \/ /\ voices' = VoiceSettled("rejected")
        /\ sendAction_catch(Failure("addVoice"))
  /\ UNCHANGED << ctx, db, chat, calls, engine, textWithTimecodes, text,
                  chunks, sentMessage, err, unhandled >>

\* ------------------------------------------------------------ specification

Next ==
  \/ handleMessage
  \/ handleMessage_findChat
  \/ handleMessage_sendLargeFileError
  \/ handleMessage_getFile
  \/ handleMessage_fileUrl
  \/ sendTranscription_sendVoiceRecognitionMessage
  \/ updateWithGoogleKeyError
  \/ sendTranscription_urlToText
  \/ updateMessagewithTranscription_edit
  \/ updateMessagewithTranscription_editFirst
  \/ updateMessagewithTranscription_reply
  \/ sendTranscription_addVoice
  \/ updateMessagewithError_editMessageText
  \/ sendAction_replyWithChatAction
  \/ sendAction_urlToText
  \/ sendMessageWithTranscription_sendMessage
  \/ sendMessageWithTranscription_sendFirst
  \/ sendMessageWithTranscription_reply
  \/ sendAction_addVoice

Spec == Init /\ [][Next]_vars

\* ---------------------------------------------------------------- properties

\* The calls that send or change a message of the chat.
MessageApis == {"replyWithMarkdown", "sendMessage", "reply", "editMessageText"}

\* The positions in calls of the calls whose api is in apis.
CallsOf(apis) == { i \in 1..Len(calls) : calls[i].api \in apis }

\* The k-th position of a set of positions.
Nth(S, k) == CHOOSE i \in S : Cardinality({ j \in S : j < i }) = k - 1

\* The texts of the calls at the positions S, in the order of the calls.
Bodies(S) == [k \in 1..Cardinality(S) |-> calls[Nth(S, k)].text]

\* The chat has been loaded and is in interactive (silent) mode.
Interactive == chat # NoChat /\ ~chat.silent

Silent == chat # NoChat /\ chat.silent

\* The engine is google and no googleKey is configured.
NoCredential == chat # NoChat /\ chat.engine = "google" /\ ~chat.googleKey

\* The calls that deliver the transcription: in interactive mode the edits
\* and replies that follow the placeholder, except the error notice; in
\* silent mode the sends and replies.
DeliveryCalls ==
  { i \in CallsOf({"editMessageText", "sendMessage", "reply"}) :
      ~(\E k \in NoticeKeys : Take(calls[i].text, 1) = i18n_t(k)) }

\* The delivery of the request ran to its end: addVoice has been started.
Delivered == voices # <<>>

C2_CredentialNotice ==
  Interactive /\ NoCredential /\ sentMessage # 0 =>
    /\ Cardinality(CallsOf({"editMessageText"})) = 1
    /\ \A i \in CallsOf({"editMessageText"}) :
         /\ calls[i].edits = sentMessage
         /\ calls[i].text = i18n_t("google_error_creds")
    /\ engine = "idle"
    /\ voices = <<>>

\* C3. Credential gate, silent mode: with engine google and no googleKey
\* the engine is never invoked, no message is sent, edited or replied, no
\* voice is stored, and once the typing indicator has succeeded nothing has
\* been reported.
C3_SilentCredentialGate ==
  Silent /\ NoCredential =>
    /\ engine = "idle"
    /\ CallsOf(MessageApis) = {}
    /\ voices = <<>>
    /\ (\E i \in CallsOf({"replyWithChatAction"}) : calls[i].status = "fulfilled")
         => reports = <<>>

\* C3 witness: the typing indicator succeeded and the request ended at the
\* credential gate.
C3_Witness ==
  /\ Silent
  /\ NoCredential
  /\ pc = "done"
  /\ \E i \in CallsOf({"replyWithChatAction"}) : calls[i].status = "fulfilled"

\* C4. Chunk reconstruction, both delivery paths: every message that
\* carries a part of the display text has between 1 and 4000 units, and
\* once the delivery of a non-empty display text has run to its end the
\* bodies of its messages, concatenated in the order sent, are the display
\* text (and there is at least one message).
C4_ChunkReconstruction ==
  /\ \A i \in DeliveryCalls :
       Length(calls[i].text) >= 1 /\ Length(calls[i].text) <= 4000
  /\ Delivered /\ text # <<>> =>
       /\ DeliveryCalls # {}
       /\ Concat(Bodies(DeliveryCalls)) = text

\* C5. A non-empty display text of at most 4000 units is delivered as
\* exactly one message whose body is the text: one edit of the placeholder
\* in interactive mode, one send in silent mode, and no threaded reply.
C5_SingleChunk ==
  Delivered /\ text # <<>> /\ Length(text) <= 4000 =>
    /\ Cardinality(DeliveryCalls) = 1
    /\ \A i \in DeliveryCalls :
         /\ calls[i].text = text
         /\ calls[i].api = (IF chat.silent THEN "sendMessage" ELSE "editMessageText")
    /\ CallsOf({"reply"}) = {}

\* The text p is the start of the text t.
IsPrefix(p, t) ==
  \/ p = <<>>
  \/ /\ Len(p) <= Len(t)
     /\ SubSeq(p, 1, Len(p) - 1) = SubSeq(t, 1, Len(p) - 1)
     /\ p[Len(p)].c = t[Len(p)].c
     /\ p[Len(p)].n <= t[Len(p)].n

\* C6. Interactive delivery of a display text of L > 4000 units: exactly
\* one edit carries the first 4000 units and it edits the placeholder; the
\* replies are threaded to the placeholder and each carries the next slice
\* of 4000 units (after every reply, the edit and the replies so far make up
\* the first 4000 * (1 + replies) units of the text); there are never more
\* than ceil(L/4000)-1 replies and exactly that many once the delivery has
\* run to its end; no reply is started before the edit is fulfilled, nor
\* before the previous reply is.
\* (E: the edits that carry the first 4000 units, R: the replies, N: the
\* number of chunks.)
C6_InteractiveOversized ==
  Interactive /\ engine = "fulfilled" =>
    \A L \in {Length(text)} :
      L > 4000 =>
        \A E \in {{ i \in CallsOf({"editMessageText"}) :
                      /\ IsPrefix(calls[i].text, text)
                      /\ Length(calls[i].text) = 4000 }},
           R \in {CallsOf({"reply"})},
           N \in {(L + 3999) \div 4000} :
          /\ Cardinality(E) = 1
          /\ \A i \in E : calls[i].edits = sentMessage
          /\ \A i \in E, j \in R : i < j /\ calls[i].status = "fulfilled"
          /\ Cardinality(R) <= N - 1
          /\ Delivered => Cardinality(R) = N - 1
          /\ \A k \in 1..Cardinality(R) :
               /\ calls[Nth(R, k)].reply_to = sentMessage
               /\ k > 1 => calls[Nth(R, k - 1)].status = "fulfilled"
          /\ \A D \in {Concat(Bodies(E \cup R))} :
               /\ IsPrefix(D, text)
               /\ Length(D) = Min(L, 4000 * (1 + Cardinality(R)))

\* C6 witness: a display text of 9000 units delivered in interactive mode by
\* one edit and two replies, the voice stored.
C6_Witness ==
  /\ Interactive
  /\ Length(text) = 9000
  /\ pc = "done"
  /\ Cardinality(CallsOf({"reply"})) = 2
  /\ voices # <<>>
  /\ voices[1].status = "fulfilled"

\* The text without its line terminators.
RECURSIVE WithoutLineTerminators(_)
WithoutLineTerminators(t) ==
  IF t = <<>> THEN <<>>
  ELSE IF Len(t) = 1 THEN (IF IsLineTerminator(t[1].c) THEN <<>> ELSE t)
  ELSE Cat(WithoutLineTerminators(SubSeq(t, 1, Len(t) \div 2)),
           WithoutLineTerminators(SubSeq(t, Len(t) \div 2 + 1, Len(t))))

\* C7. Silent delivery: no placeholder is sent and no message is edited;
\* the first message is a sendMessage that replies to the original message,
\* every later one is a reply to the message the first send returned; once
\* the delivery has run to its end the bodies, in the order sent, are the
\* display text in its order (up to line terminators).
C7_SilentDelivery ==
  Silent =>
    \A M \in {CallsOf({"sendMessage", "reply"})} :
      /\ CallsOf({"replyWithMarkdown", "editMessageText"}) = {}
      /\ \A k \in 1..Cardinality(M) :
           IF k = 1
           THEN /\ calls[Nth(M, 1)].api = "sendMessage"
                /\ calls[Nth(M, 1)].reply_to = ctx.message_id
           ELSE /\ calls[Nth(M, k)].api = "reply"
                /\ calls[Nth(M, 1)].status = "fulfilled"
                /\ calls[Nth(M, k)].reply_to = calls[Nth(M, 1)].id
                /\ calls[Nth(M, k)].reply_to # ctx.message_id
                /\ calls[Nth(M, k - 1)].status = "fulfilled"
      /\ Delivered =>
           WithoutLineTerminators(Concat(Bodies(M)))
             = WithoutLineTerminators(text)

\* C7 witness: a silent delivery in three messages or more, run to its end.
C7_Witness ==
  /\ Silent
  /\ Cardinality(CallsOf({"sendMessage", "reply"})) >= 3
  /\ pc = "done"
  /\ voices # <<>>
  /\ voices[1].status = "fulfilled"

\* C8. The placeholder reaches one terminal state and stays there: once an
\* edit of the placeholder has succeeded, the placeholder is never edited
\* again (in particular not to the error notice).
C8_TerminalState ==
  \A i, j \in CallsOf({"editMessageText"}) :
    i < j /\ calls[i].status = "fulfilled" => calls[i].edits # calls[j].edits

\* C9. No failure escapes: no rejection is left unhandled, and when the
\* request is over every rejected platform call has been reported.
C9_NoEscape ==
  /\ unhandled = <<>>
  /\ pc = "done" =>
       \A i \in 1..Len(calls) :
         calls[i].status = "rejected" =>
           \E r \in 1..Len(reports) : reports[r].err.from = calls[i].api

\* C10. Interactive engine failure: exactly one edit is started, it edits
\* the placeholder to the error notice; nothing else is sent; no voice is
\* stored; nothing escapes; when the request is over the engine error has
\* been reported exactly once (tag sendTranscription), alone when the edit
\* succeeded and after the report of the edit's failure (tag
\* updateMessagewithError) when it failed.
C10_EngineFailure ==
  Interactive /\ engine = "rejected" =>
    \A E \in {CallsOf({"editMessageText"})},
       F \in {{ r \in 1..Len(reports) : reports[r].err.from = "urlToText" }} :
      /\ voices = <<>>
      /\ Cardinality(E) = 1
      /\ \A i \in E : /\ calls[i].edits = sentMessage
                      /\ Take(calls[i].text, 1) = i18n_t("error")
      /\ CallsOf({"reply", "sendMessage"}) = {}
      /\ unhandled = <<>>
      /\ pc \in {"updateMessagewithError", "done"}
      /\ pc # "done" => reports = <<>>
      /\ pc = "done" =>
           /\ Cardinality(F) = 1
           /\ \A r \in F : /\ reports[r].tag = "sendTranscription"
                           /\ reports[r].err = err
                           /\ r = Len(reports)
           /\ \A i \in E :
                IF calls[i].status = "rejected"
                THEN /\ Len(reports) = 2
                     /\ reports[1] = Report(Failure("editMessageText"),
                                            "updateMessagewithError")
                ELSE Len(reports) = 1

\* C10 witness: the engine failed, the edit to the error notice failed too,
\* and the request is over.
C10_Witness ==
  /\ Interactive
  /\ engine = "rejected"
  /\ pc = "done"
  /\ \E i \in CallsOf({"editMessageText"}) : calls[i].status = "rejected"

\* C11. Silent failures are invisible: in silent mode, when the engine
\* invocation fails, no message is sent, edited or replied, no addVoice is
\* made, the request is over and the sink has received exactly one report,
\* that of the engine error (tag sendTranscription.silent); and in silent
\* mode, whatever call fails, no call carries a notice text (initiated,
\* error, error_twenty, google_error_creds, speak_clearly).
C11_SilentFailure ==
  /\ Silent /\ engine = "rejected" =>
       /\ CallsOf(MessageApis) = {}
       /\ voices = <<>>
       /\ pc = "done"
       /\ Len(reports) = 1
       /\ reports[1].tag = "sendTranscription.silent"
       /\ reports[1].err.from = "urlToText"
  /\ Silent =>
       \A i \in 1..Len(calls) :
         \A j \in 1..Len(calls[i].text) : calls[i].text[j].c \notin NoticeKeys

\* C11 witness: the engine failed in a silent chat.
C11_Witness ==
  /\ Silent
  /\ engine = "rejected"
  /\ reports # <<>>

\* The text holds the promo text (which starts with one P and ends with one
\* closing parenthesis).
ContainsPromo(t) ==
  \E j \in 1..(Len(t) - Len(PromoLine) + 1) :
    /\ t[j].c = "P"
    /\ t[j + Len(PromoLine) - 1].c = ")"
    /\ SubSeq(t, j + 1, j + Len(PromoLine) - 2)
         = SubSeq(PromoLine, 2, Len(PromoLine) - 1)

\* The text ends with a line break and the promo text.
EndsWithPromoSuffix(t) ==
  /\ Len(t) > Len(PromoLine)
  /\ t[Len(t) - Len(PromoLine)].c = NL
  /\ SubSeq(t, Len(t) - Len(PromoLine) + 1, Len(t)) = PromoLine

\* The display text before the promo, as the mode of the chat builds it.
Formatted ==
  IF chat.silent THEN sendAction_text(chat, textWithTimecodes)
  ELSE sendTranscription_text(chat, textWithTimecodes)

\* C12. Promo suffix: once a transcription has been delivered (in either
\* mode), the delivered text (the bodies of the delivery messages in the
\* order sent) does not contain the promo text when the chat is exempt; it
\* ends with a line break and the promo text when the chat is not exempt and
\* the formatted text is not empty; and when the formatted text is empty no
\* message of the request contains the promo text.
C12_PromoSuffix ==
  Delivered =>
    \A D \in {Concat(Bodies(DeliveryCalls))} :
      /\ ctx.chat_id \in promoExceptions => ~ContainsPromo(D)
      /\ ctx.chat_id \notin promoExceptions /\ Formatted # <<>> =>
           EndsWithPromoSuffix(D)
      /\ Formatted = <<>> =>
           ~ContainsPromo(Concat(Bodies(CallsOf(MessageApis))))

\* Leading and trailing white space removed.
RECURSIVE StripLeft(_)
StripLeft(t) ==
  IF t # <<>> /\ IsWhiteSpace(t[1].c) THEN StripLeft(Tail(t)) ELSE t

RECURSIVE StripRight(_)
StripRight(t) ==
  IF t # <<>> /\ IsWhiteSpace(t[Len(t)].c)
  THEN StripRight(SubSeq(t, 1, Len(t) - 1))
  ELSE t

\* The plain text of a segment sequence as the specification states it: each
\* text trimmed, the empty ones dropped, the rest joined by ". ".
RECURSIVE PlainText(_)
PlainTextJoin(h, r) ==
  IF h = <<>> THEN r
  ELSE IF r = <<>> THEN h
  ELSE Cat(h, Cat(Lit(<<".", " ">>), r))

PlainText(twt) ==
  IF twt = <<>> THEN <<>>
  ELSE PlainTextJoin(StripRight(StripLeft(twt[1][2])), PlainText(Tail(twt)))

\* C13. Plain formatting: with timecodes disabled, the formatted text of the
\* segments the engine returned is their texts, each trimmed, the empty ones
\* dropped, joined in order by ". "; sendTranscription and sendAction build
\* the same string; it does not start with the separator, does not end with
\* white space and holds no white space followed by a full stop (an empty
\* segment leaves no separator); the text handed to the delivery is this
\* string, with or without the promo suffix.
C13_PlainFormatting ==
  engine = "fulfilled" /\ ~chat.timecodesEnabled =>
    \A F \in {PlainText(textWithTimecodes)} :
      /\ sendTranscription_text(chat, textWithTimecodes) = F
      /\ sendAction_text(chat, textWithTimecodes) = F
      /\ text \in {F, Cat(F, Cat(Lit(<<NL>>), PromoLine))}
      /\ F # <<>> =>
           /\ Take(F, 2) # Lit(<<".", " ">>)
           /\ ~IsWhiteSpace(F[Len(F)].c)
           /\ \A j \in 1..(Len(F) - 1) :
                ~(IsWhiteSpace(F[j].c) /\ F[j + 1].c = ".")

\* C13 witness: the segments "hi " and "" with timecodes disabled in an
\* exempt chat: the text delivered is "hi".
C13_Witness ==
  /\ engine = "fulfilled"
  /\ ~chat.timecodesEnabled
  /\ Len(textWithTimecodes) = 2
  /\ textWithTimecodes[1][2] = Lit(<<"h", "i", " ">>)
  /\ textWithTimecodes[2][2] = <<>>
  /\ text = Lit(<<"h", "i">>)
  /\ pc = "done"

\* C14. Persisted aggregate: the text given to addVoice is the plain text of
\* the segments the engine returned (trimmed, empty ones dropped, joined by
\* ". "), a function of the segments alone: the timecode flag, the promo
\* exemption, the locale and the mode do not enter it; it does not contain
\* the promo text.
C14_PersistedAggregate ==
  \A v \in 1..Len(voices) :
    /\ voices[v].textWithTimecodes = textWithTimecodes
    /\ voices[v].text = PlainText(textWithTimecodes)
    /\ ~ContainsPromo(voices[v].text)

\* C14 witness: a voice stored for a chat with timecodes enabled and the
\* promo text, whose display text differs from the aggregate.
C14_Witness ==
  /\ voices # <<>>
  /\ voices[1].status = "fulfilled"
  /\ voices[1].text # <<>>
  /\ chat.timecodesEnabled
  /\ ctx.chat_id \notin promoExceptions
  /\ text # voices[1].text

\* The platform calls still in flight.
PendingCalls == { i \in 1..Len(calls) : calls[i].status = "pending" }

\* The edits to the error notice.
ErrorNotices ==
  { i \in CallsOf({"editMessageText"}) : calls[i].text[1].c = "error" }

\* C15. Persistence is the final side effect of a successful run: addVoice
\* is called at most once; when it has been called the engine had returned
\* successfully, no chunk was left to send and every message of the delivery
\* had been emitted successfully; while it is in flight no platform call
\* is; once it has succeeded the request is over, no platform call is in
\* flight, no error notice was sent, and no platform call is ever started
\* or settled again.
C15_PersistenceLast ==
  /\ [](/\ Len(voices) <= 1
        /\ voices # <<>> =>
             /\ engine = "fulfilled"
             /\ chunks = <<>>
             /\ \A i \in CallsOf(MessageApis) \ ErrorNotices :
                  calls[i].status = "fulfilled"
             /\ voices[1].status = "pending" => PendingCalls = {}
             /\ voices[1].status = "fulfilled" =>
                  pc = "done" /\ PendingCalls = {} /\ ErrorNotices = {})
  /\ [][voices # <<>> /\ voices[1].status = "fulfilled" => calls' = calls]_vars

\* C15 witness: a delivery in several messages, then the voice stored.
C15_Witness ==
  /\ voices # <<>>
  /\ voices[1].status = "fulfilled"
  /\ Cardinality(DeliveryCalls) >= 2

\* C16. Raw engine diagnostics: when the engine has failed, every text sent
\* or edited into the chat is a fixed notice (initiated, error) that does
\* not depend on the message of the error, except the edit of an interactive
\* chat whose engine is google: that one is the error notice followed by a
\* blank line and, between triple grave accents, the message of the error,
\* or "Unknown error" when the error has no message.
C16_EngineDiagnostics ==
  engine = "rejected" =>
    \A i \in CallsOf(MessageApis) :
      IF Interactive /\ chat.engine = "google" /\ calls[i].api = "editMessageText"
      THEN /\ err.from = "urlToText"
           /\ calls[i].text =
                Cat(Lit(<<"error", NL, NL, BQ, BQ, BQ, " ">>),
                    Cat(IF err.message = <<>>
                        THEN Lit(<<"U","n","k","n","o","w","n"," ",
                                   "e","r","r","o","r">>)
                        ELSE err.message,
                        Lit(<<BQ, BQ, BQ>>)))
      ELSE calls[i].text \in {Lit(<<"initiated">>), Lit(<<"error">>)}

\* C16 witness: an interactive chat with the google engine, the engine failed
\* with an error that has no message, the placeholder edited.
C16_Witness ==
  /\ Interactive
  /\ chat.engine = "google"
  /\ engine = "rejected"
  /\ err.message = <<>>
  /\ pc = "done"
  /\ \E i \in CallsOf({"editMessageText"}) : calls[i].status = "fulfilled"

\* The initial feedback calls: the placeholder of the interactive mode, the
\* typing indicator of the silent mode.
FeedbackCalls ==
  { i \in 1..Len(calls) :
      \/ calls[i].api = "replyWithChatAction"
      \/ /\ calls[i].api = "replyWithMarkdown"
         /\ calls[i].text = Lit(<<"initiated">>) }

\* C17. Step ordering: once the engine has been invoked, the attachment was
\* not over the size limit, the credential gate was passed and the feedback
\* call of the mode (placeholder reply to the original message, typing
\* indicator) had been fulfilled; until the engine has returned no
\* transcription text is sent or edited; when the feedback call is rejected
\* the engine is never invoked, nothing else is called, and the request ends
\* with exactly one report, of that failure, tagged sendTranscription in
\* interactive mode and sendAction in silent mode.
C17_StepOrdering ==
  /\ engine # "idle" =>
       /\ ~(ctx.file_size.known /\ ctx.file_size.bytes >= 19922944)
       /\ ~NoCredential
       /\ \E i \in FeedbackCalls :
            /\ calls[i].status = "fulfilled"
            /\ calls[i].api =
                 (IF chat.silent THEN "replyWithChatAction" ELSE "replyWithMarkdown")
            /\ ~chat.silent => calls[i].reply_to = ctx.message_id
  /\ engine # "fulfilled" => DeliveryCalls = {}
  /\ \A i \in FeedbackCalls :
       calls[i].status = "rejected" =>
         /\ engine = "idle"
         /\ voices = <<>>
         /\ i = Len(calls)
         /\ pc = "done"
         /\ Len(reports) = 1
         /\ reports[1].err.from = calls[i].api
         /\ reports[1].tag =
              (IF chat.silent THEN "sendAction" ELSE "sendTranscription")

\* C17 witness: the placeholder of an interactive chat was rejected and the
\* request is over.
C17_Witness ==
  /\ Interactive
  /\ pc = "done"
  /\ \E i \in FeedbackCalls : calls[i].status = "rejected"

\* C18. A request is complete only when its effects are: when handleMessage
\* has settled, no platform call, engine call or addVoice call of the request
\* is still in flight.
C18_NothingInFlight ==
  pc = "done" =>
    /\ PendingCalls = {}
    /\ engine # "pending"
    /\ \A v \in 1..Len(voices) : voices[v].status # "pending"

\* Every segment text is empty once trimmed.
AllBlank(twt) ==
  \A k \in 1..Len(twt) :
    \A j \in 1..Len(twt[k][2]) : IsWhiteSpace(twt[k][2][j].c)

\* The display text of the segments is empty as the specification states it:
\* no segments, or timecodes disabled and every trimmed text empty.
EmptyDisplay ==
  \/ textWithTimecodes = <<>>
  \/ ~chat.timecodesEnabled /\ AllBlank(textWithTimecodes)

\* C19. Empty transcription, interactive mode: the display text is empty
\* exactly when there are no segments or timecodes are disabled and every
\* trimmed text is empty; then exactly one edit carries the speak_clearly
\* text, it edits the placeholder and precedes any other edit; no message of
\* the request holds the promo text; no reply is sent; addVoice is started
\* exactly when that edit has been fulfilled, once, with an empty aggregate.
\* (E: the edits, F: those with the fallback text.)
C19_EmptyInteractive ==
  Interactive /\ engine = "fulfilled" =>
    /\ text = <<>> <=> EmptyDisplay
    /\ EmptyDisplay =>
         \A E \in {CallsOf({"editMessageText"})} :
         \A F \in {{ i \in E : calls[i].text = Lit(<<"speak_clearly">>) }} :
           /\ Cardinality(F) = 1
           /\ \A i \in F : /\ calls[i].edits = sentMessage
                           /\ \A j \in E : i <= j
                           /\ calls[i].status = "fulfilled" <=> voices # <<>>
           /\ CallsOf({"reply", "sendMessage"}) = {}
           /\ \A i \in CallsOf(MessageApis) : ~ContainsPromo(calls[i].text)
           /\ Len(voices) <= 1
           /\ \A v \in 1..Len(voices) : voices[v].text = <<>>

\* C19 witness: two blank segments in an interactive chat that is not exempt
\* from the promo, the fallback edited in and the voice stored.
C19_Witness ==
  /\ Interactive
  /\ engine = "fulfilled"
  /\ Len(textWithTimecodes) = 2
  /\ text = <<>>
  /\ ctx.chat_id \notin promoExceptions
  /\ pc = "done"
  /\ voices # <<>>
  /\ voices[1].status = "fulfilled"

\* C20 as stated. Empty transcription, silent mode: when the engine has
\* succeeded and the display text is empty, no message is sent, edited or
\* replied, nothing is reported to the sink, and addVoice is called exactly
\* once.
C20_EmptySilent_Original ==
  Silent /\ engine = "fulfilled" /\ EmptyDisplay =>
    /\ CallsOf(MessageApis) = {}
    /\ reports = <<>>
    /\ Len(voices) = 1

\* C20 as amended. Empty transcription, silent mode: the display text is
\* empty exactly when there are no segments or timecodes are disabled and
\* every trimmed text is empty; then no message is sent, edited or replied
\* (no speak_clearly fallback), addVoice is called exactly once, and nothing
\* is reported unless that call fails: its failure is the only report, with
\* the tag sendTranscription.silent.
C20_EmptySilent ==
  Silent /\ engine = "fulfilled" =>
    /\ text = <<>> <=> EmptyDisplay
    /\ EmptyDisplay =>
         /\ CallsOf(MessageApis) = {}
         /\ Len(voices) = 1
         /\ voices[1].status # "pending" => pc = "done"
         /\ IF voices[1].status = "rejected"
            THEN /\ Len(reports) = 1
                 /\ reports[1].tag = "sendTranscription.silent"
                 /\ reports[1].err.from = "addVoice"
            ELSE reports = <<>>

\* C20 witness: a blank segment in a silent chat, nothing sent and the voice
\* stored.
C20_Witness ==
  /\ Silent
  /\ engine = "fulfilled"
  /\ Len(textWithTimecodes) >= 1
  /\ text = <<>>
  /\ calls[Len(calls)].api = "replyWithChatAction"
  /\ pc = "done"
  /\ voices # <<>>
  /\ voices[1].status = "fulfilled"

====
